---- MODULE Spec2Model ----
(***************************************************************************)
(* Key expressions of zenoh-c (src/src/keyexpr.rs): the owned wrapper      *)
(* z_owned_keyexpr_t, the loaned view z_keyexpr_t, the constructors, the   *)
(* matching algebra, the composition operators and the declaration calls   *)
(* made on a session.                                                      *)
(*                                                                         *)
(* A string is a sequence of one-character strings, so that splitting,     *)
(* concatenation and validation are computed rather than assumed.  The     *)
(* byte BadByte stands for a byte sequence that is not valid UTF-8.        *)
(***************************************************************************)
EXTENDS Integers, Sequences, FiniteSets, TLC

\* ------------------------------------------------------------------ bounds
MaxNameLen == 1
MaxStrLen == 3
MaxDeclared == 1
MaxChunks == 3
MaxOperandLen == 3

\* ----------------------------------------------------------------- strings
BadByte == "0xFF"
Slash == "/"
Star == "*"
Forbidden == {"?", "#", "$"}
Alphabet == {"a", Slash, Star, BadByte}
Literals == {<<"a">>, <<"b">>}

Strings(alphabet, n) == UNION {[1..m -> alphabet] : m \in 0..n}

RECURSIVE Split(_)
\* str::split('/'): the chunks between separators, empty ones included.
Split(s) ==
    IF \A i \in 1..Len(s) : s[i] # Slash
    THEN <<s>>
    ELSE LET i == CHOOSE j \in 1..Len(s) :
                      s[j] = Slash /\ \A k \in 1..(j - 1) : s[k] # Slash
         IN  <<SubSeq(s, 1, i - 1)>> \o Split(SubSeq(s, i + 1, Len(s)))

RECURSIVE Unsplit(_)
\* The chunks joined back with one separator between neighbours.
Unsplit(cs) ==
    IF Len(cs) = 0 THEN <<>>
    ELSE IF Len(cs) = 1 THEN cs[1]
    ELSE cs[1] \o <<Slash>> \o Unsplit(Tail(cs))

SingleWild == <<Star>>
DoubleWild == <<Star, Star>>

from_utf8(bytes) == \A i \in 1..Len(bytes) : bytes[i] # BadByte

ends_with(s, c) == Len(s) > 0 /\ s[Len(s)] = c
starts_with(s, c) == Len(s) > 0 /\ s[1] = c

\* -------------------------------------------------- grammar and canon form
ChunkOk(c) ==
    /\ Len(c) > 0
    /\ \A i \in 1..Len(c) : c[i] \notin Forbidden /\ c[i] # BadByte
    /\ (\E i \in 1..Len(c) : c[i] = Star) => c \in {SingleWild, DoubleWild}

\* The grammar: no empty chunk (no "//", no leading or trailing "/"), no
\* forbidden character, a wildcard occupies a whole chunk.
GrammarValid(s) == \A i \in 1..Len(Split(s)) : ChunkOk(Split(s)[i])

\* Canon form: "**" is never followed by "**" or by "*".
IsCanon(s) ==
    LET cs == Split(s)
    IN  \A i \in 1..(Len(cs) - 1) :
            cs[i] = DoubleWild => cs[i + 1] \notin {SingleWild, DoubleWild}

RECURSIVE CanonChunks(_)
CanonChunks(cs) ==
    IF Len(cs) < 2 THEN cs
    ELSE IF cs[1] = DoubleWild /\ cs[2] = DoubleWild
         THEN CanonChunks(Tail(cs))
    ELSE IF cs[1] = DoubleWild /\ cs[2] = SingleWild
         THEN <<SingleWild>> \o CanonChunks(<<DoubleWild>> \o Tail(Tail(cs)))
    ELSE <<cs[1]>> \o CanonChunks(Tail(cs))

\* "**/**" collapses to "**" and "**/*" becomes "*/**".
Canonize(s) == Unsplit(CanonChunks(Split(s)))

IsValidKeyExpr(s) == GrammarValid(s) /\ IsCanon(s)

\* ------------------------------------------------- Option<KeyExpr> values
\* `some` and `str` are the Option and the key expression's string; `wire`
\* marks an alias a session declared; `unchecked` records that the string
\* came in through z_keyexpr_unchecked and was never validated.
None == [some |-> FALSE, str |-> <<>>, wire |-> FALSE, unchecked |-> FALSE]
Some(s) == [some |-> TRUE, str |-> s, wire |-> FALSE, unchecked |-> FALSE]

\* KeyExpr::try_from(&str): validation, no rewriting.
KeyExprTryFrom(s) == IF IsValidKeyExpr(s) THEN Some(s) ELSE None

\* OwnedKeyExpr::autocanonize: canonize, then validate.
AutoCanonize(s) == KeyExprTryFrom(Canonize(s))

\* ------------------------------------------------------- matching engine
\* One chunk against one chunk, neither of them "**".
ChunkIncludes(lchunk, rchunk) == lchunk = SingleWild \/ lchunk = rchunk
ChunkIntersects(lchunk, rchunk) ==
    lchunk = SingleWild \/ rchunk = SingleWild \/ lchunk = rchunk

RECURSIVE ChunksInclude(_, _)
\* Left to right over the chunks; "**" on the left tries to cover zero
\* chunks of the right, then one more.
ChunksInclude(l, r) ==
    IF l[1] = DoubleWild
    THEN IF Len(l) = 1 THEN TRUE
         ELSE \/ ChunksInclude(Tail(l), r)
              \/ Len(r) > 1 /\ ChunksInclude(l, Tail(r))
    ELSE /\ r[1] # DoubleWild
         /\ ChunkIncludes(l[1], r[1])
         /\ IF Len(l) = 1 THEN Len(r) = 1
            ELSE Len(r) > 1 /\ ChunksInclude(Tail(l), Tail(r))

RECURSIVE ChunksIntersect(_, _)
ChunksIntersect(l, r) ==
    IF Len(l) = 0 \/ Len(r) = 0
    THEN (Len(l) = 0 \/ l = <<DoubleWild>>) /\ (Len(r) = 0 \/ r = <<DoubleWild>>)
    ELSE IF l[1] = DoubleWild
         THEN \/ Len(l) = 1
              \/ ChunksIntersect(Tail(l), r)
              \/ ChunksIntersect(l, Tail(r))
    ELSE IF r[1] = DoubleWild
         THEN \/ Len(r) = 1
              \/ ChunksIntersect(l, Tail(r))
              \/ ChunksIntersect(Tail(l), r)
    ELSE ChunkIntersects(l[1], r[1]) /\ ChunksIntersect(Tail(l), Tail(r))

\* keyexpr::includes and keyexpr::intersects on two key expression strings.
includes(l, r) == ChunksInclude(Split(l), Split(r))
intersects(l, r) == ChunksIntersect(Split(l), Split(r))

\* ---------------------------------------------------------------- composer
\* keyexpr::concat: refuses `*` next to `*`, then validates the whole string.
concat(l, r) ==
    IF ends_with(l, Star) /\ starts_with(r, Star) THEN None
    ELSE KeyExprTryFrom(l \o r)

\* keyexpr::join: one separator in between, then canonization and validation.
join(l, r) == AutoCanonize(l \o <<Slash>> \o r)

\* ------------------------------------------------ the functions of the API
\* Each operator is the value the function returns.
\* Faulty variant: the string is copied without being validated.
z_keyexpr_new_from_str_unchecked(name) ==
    IF from_utf8(name) THEN Some(name) ELSE None
z_keyexpr_new(name) ==
    IF from_utf8(name) THEN KeyExprTryFrom(name) ELSE None

z_keyexpr(name) ==
    IF from_utf8(name) THEN KeyExprTryFrom(name) ELSE None

\* from_utf8_unchecked and from_str_unchecked reinterpret the bytes: the view
\* holds exactly the bytes it was given.
z_keyexpr_unchecked(name) ==
    [some |-> TRUE, str |-> name, wire |-> FALSE, unchecked |-> TRUE]

z_keyexpr_loan(keyexpr) == keyexpr

z_keyexpr_check(keyexpr) == keyexpr.some
z_loaned_keyexpr_check(keyexpr) == keyexpr.some

\* Option::take followed by mem::drop: the wrapper left behind and the number
\* of destructor runs.
\* Faulty variant: the value is dropped and the wrapper not invalidated.
z_keyexpr_drop_no_take(keyexpr) ==
    [wrapper |-> keyexpr, dropped |-> IF keyexpr.some THEN 1 ELSE 0]
z_keyexpr_drop(keyexpr) ==
    [wrapper |-> None, dropped |-> IF keyexpr.some THEN 1 ELSE 0]

\* `*left == *right` on Option<KeyExpr>: None equals None.
z_keyexpr_equals(left, right) ==
    /\ left.some = right.some
    /\ left.some => left.str = right.str

\* Faulty variant: an absent operand matches everything.
z_keyexpr_intersects_absent_true(left, right) ==
    IF left.some /\ right.some THEN intersects(left.str, right.str) ELSE TRUE
z_keyexpr_intersects(left, right) ==
    IF left.some /\ right.some THEN intersects(left.str, right.str) ELSE FALSE

\* Faulty variant: calls intersects where includes is meant.
z_keyexpr_includes_as_intersects(left, right) ==
    IF left.some /\ right.some THEN intersects(left.str, right.str) ELSE FALSE
z_keyexpr_includes(left, right) ==
    IF left.some /\ right.some THEN includes(left.str, right.str) ELSE FALSE

\* Faulty variant: left is used without the check for the absent view.
z_keyexpr_concat_no_null_check(left, right) ==
    IF ~from_utf8(right) THEN None ELSE concat(left.str, right)
z_keyexpr_concat(left, right) ==
    IF ~left.some THEN None
    ELSE IF ~from_utf8(right) THEN None
    ELSE concat(left.str, right)

\* Faulty variant: calls concat where join is meant.
z_keyexpr_join_as_concat(left, right) ==
    IF ~left.some THEN None
    ELSE IF ~from_utf8(right) THEN None
    ELSE concat(left.str, right)
z_keyexpr_join(left, right) ==
    IF ~left.some THEN None
    ELSE IF ~from_utf8(right) THEN None
    ELSE join(left.str, right)

\* ------------------------------------------------------- session boundary
NoRequest == [kind |-> "none", str |-> <<>>]
DeclareRequest(s) == [kind |-> "declare", str |-> s]
UndeclareRequest(s) == [kind |-> "undeclare", str |-> s]

\* The answers the session can give.  It declares while it has identifiers
\* left, and undeclares only an alias it has declared; it may always fail.
SessionDeclareReplies(declared) ==
    IF declared < MaxDeclared THEN {"Ok", "Err"} ELSE {"Err"}
SessionUndeclareReplies(declared, keyexpr) ==
    IF keyexpr.wire /\ declared > 0 THEN {"Ok", "Err"} ELSE {"Err"}

\* What one call of z_declare_keyexpr does: the value returned, the request
\* made on the session (if any) and the line logged.  `session` is whether
\* the z_session_t holds a session, `reply` is the session's answer.
\* Faulty variant: the session is used before the key expression is looked at.
z_declare_keyexpr_session_first(session, keyexpr, reply) ==
    IF ~session
    THEN [out |-> None, sent |-> NoRequest, log |-> "debug: invalid session"]
    ELSE [out |-> IF reply = "Ok" /\ keyexpr.some
                  THEN [keyexpr EXCEPT !.wire = TRUE] ELSE None,
          sent |-> DeclareRequest(keyexpr.str),
          log |-> IF reply = "Ok" THEN "" ELSE "debug: session error"]
z_declare_keyexpr(session, keyexpr, reply) ==
    IF ~keyexpr.some
    THEN [out |-> None, sent |-> NoRequest,
          log |-> "warn: uninitialized key expression"]
    ELSE IF session
    THEN [out |-> IF reply = "Ok" THEN [keyexpr EXCEPT !.wire = TRUE] ELSE None,
          sent |-> DeclareRequest(keyexpr.str),
          log |-> IF reply = "Ok" THEN "" ELSE "debug: session error"]
    ELSE [out |-> None, sent |-> NoRequest, log |-> "debug: invalid session"]

\* What one call of z_undeclare_keyexpr does: whether `unwrap` panics, the
\* wrapper left behind, the request made on the session and the line logged.
z_undeclare_keyexpr(session, keyexpr, reply) ==
    IF session
    THEN IF ~keyexpr.some
         THEN [panic |-> TRUE, wrapper |-> keyexpr, sent |-> NoRequest,
               log |-> "panic: unwrap on None"]
         ELSE [panic |-> FALSE, wrapper |-> keyexpr,
               sent |-> UndeclareRequest(keyexpr.str),
               log |-> IF reply = "Ok" THEN "" ELSE "debug: session error"]
    ELSE [panic |-> FALSE, wrapper |-> keyexpr, sent |-> NoRequest,
          log |-> "debug: invalid session"]

\* A panic leaving an extern "C" function aborts the process, or unwinds
\* into the C caller on builds that do not abort.
PanicOutcomes == {"abort", "unwind"}

\* -------------------------------------------------------------------- state
Slots == {"k", "alias"}

VARIABLES
    owned,        \* the caller's z_owned_keyexpr_t variables
    constructed,  \* per slot: values moved into it since it was last assigned
    destructed,   \* per slot: destructor runs on those values
    declared,     \* the number of aliases in the session's table
    status,       \* "running", or how the process ended
    ret,          \* the last call: its arguments' shape and what it did
    left, right,  \* operands of the matching engine and the composer
    suffix        \* the composer's right operand, as bytes

vars == <<owned, constructed, destructed, declared, status, ret,
          left, right, suffix>>
operands == <<left, right, suffix>>

\* A call: the function, the slot it read or wrote, its key expression
\* argument (`absent` when it is the null value, which is also what a function
\* without such an argument records), whether its z_session_t held a session,
\* the boolean it returned, the request it made on the session and the line
\* it logged.
NoCall == [op |-> "none", slot |-> "", absent |-> FALSE, unchecked |-> FALSE,
           session |-> FALSE, val |-> FALSE, sent |-> NoRequest, log |-> ""]
Call(op, slot, arg, session, val, sent, log) ==
    [op |-> op, slot |-> slot, absent |-> ~arg.some,
     unchecked |-> arg.unchecked, session |-> session,
     val |-> val, sent |-> sent, log |-> log]

Names == Strings(Alphabet, MaxNameLen)

\* The views a caller can pass: a loan of one of its wrappers, or a view
\* built in place from a string.
ViewArgs ==
    {z_keyexpr_loan(owned[s]) : s \in Slots}
        \cup {z_keyexpr(n) : n \in Names}
        \cup {z_keyexpr_unchecked(n) : n \in Names}

\* slot = value, for a slot that holds nothing (assigning over a live value
\* would leak it).
Assign(slot, value) ==
    /\ owned' = [owned EXCEPT ![slot] = value]
    /\ constructed' = [constructed EXCEPT ![slot] = IF value.some THEN 1 ELSE 0]
    /\ destructed' = [destructed EXCEPT ![slot] = 0]

Quiet ==
    /\ declared = 0
    /\ status = "running"
    /\ ret = NoCall

Init ==
    /\ owned \in [Slots -> {None, Some(<<"a">>)}]
    /\ constructed = [s \in Slots |-> IF owned[s].some THEN 1 ELSE 0]
    /\ destructed = [s \in Slots |-> 0]
    /\ Quiet
    /\ left = None /\ right = None /\ suffix = <<>>

\* ------------------------------------------------------------------ actions
\* k = z_keyexpr_new(name)
Call_z_keyexpr_new ==
    /\ status = "running"
    /\ ~owned["k"].some
    /\ \E name \in Names :
        /\ Assign("k", z_keyexpr_new(name))
        /\ ret' = Call("new", "k", None, FALSE, FALSE, NoRequest,
                       IF z_keyexpr_new(name).some THEN "" ELSE "error")
    /\ UNCHANGED <<declared, status, operands>>

\* z_keyexpr_drop(&mut slot)
Call_z_keyexpr_drop ==
    /\ status = "running"
    /\ \E slot \in Slots :
        /\ owned' = [owned EXCEPT ![slot] = z_keyexpr_drop(owned[slot]).wrapper]
        /\ destructed' = [destructed EXCEPT
                             ![slot] = @ + z_keyexpr_drop(owned[slot]).dropped]
        /\ ret' = Call("drop", slot, owned[slot], FALSE, FALSE,
                       NoRequest, "")
    /\ UNCHANGED <<constructed, declared, status, operands>>

\* z_keyexpr_check(&slot)
Call_z_keyexpr_check ==
    /\ status = "running"
    /\ \E slot \in Slots :
        ret' = Call("check", slot, owned[slot], FALSE,
                    z_keyexpr_check(owned[slot]), NoRequest, "")
    /\ UNCHANGED <<owned, constructed, destructed, declared, status, operands>>

\* k = z_keyexpr_concat(view, bytes, len)
Call_z_keyexpr_concat(views, byteset, cap) ==
    /\ status = "running"
    /\ ~owned["k"].some
    /\ \E view \in views, bytes \in byteset :
        /\ Len(view.str) + Len(bytes) <= cap
        /\ Assign("k", z_keyexpr_concat(view, bytes))
        /\ ret' = Call("concat", "k", view, FALSE, FALSE, NoRequest,
                       IF z_keyexpr_concat(view, bytes).some \/ ~view.some
                       THEN "" ELSE "error")
    /\ UNCHANGED <<declared, status, operands>>

\* k = z_keyexpr_join(view, bytes, len)
Call_z_keyexpr_join(views, byteset, cap) ==
    /\ status = "running"
    /\ ~owned["k"].some
    /\ \E view \in views, bytes \in byteset :
        /\ Len(view.str) + 1 + Len(bytes) <= cap
        /\ Assign("k", z_keyexpr_join(view, bytes))
        /\ ret' = Call("join", "k", view, FALSE, FALSE, NoRequest,
                       IF z_keyexpr_join(view, bytes).some \/ ~view.some
                       THEN "" ELSE "error")
    /\ UNCHANGED <<declared, status, operands>>

\* alias = z_declare_keyexpr(session, view)
Call_z_declare_keyexpr ==
    /\ status = "running"
    /\ ~owned["alias"].some
    /\ \E view \in ViewArgs, session \in BOOLEAN,
          reply \in SessionDeclareReplies(declared) :
        LET r == z_declare_keyexpr(session, view, reply)
        IN  /\ Assign("alias", r.out)
            /\ declared' = IF r.sent.kind = "declare" /\ reply = "Ok"
                           THEN declared + 1 ELSE declared
            /\ ret' = Call("declare", "alias", view, session, FALSE,
                           r.sent, r.log)
    /\ UNCHANGED <<status, operands>>

\* z_undeclare_keyexpr(session, &mut slot)
Call_z_undeclare_keyexpr ==
    /\ status = "running"
    /\ \E slot \in Slots, session \in BOOLEAN, outcome \in PanicOutcomes :
      \E reply \in SessionUndeclareReplies(declared, owned[slot]) :
        LET r == z_undeclare_keyexpr(session, owned[slot], reply)
        IN  /\ owned' = [owned EXCEPT ![slot] = r.wrapper]
            /\ declared' = IF r.sent.kind = "undeclare" /\ reply = "Ok"
                           THEN declared - 1 ELSE declared
            /\ status' = IF r.panic THEN outcome ELSE "running"
            /\ ret' = Call("undeclare", slot, owned[slot], session,
                           FALSE, r.sent, r.log)
    /\ UNCHANGED <<constructed, destructed, operands>>

Next ==
    \/ Call_z_keyexpr_new
    \/ Call_z_keyexpr_drop
    \/ Call_z_keyexpr_check
    \/ Call_z_keyexpr_concat(ViewArgs, Names, MaxStrLen)
    \/ Call_z_keyexpr_join(ViewArgs, Names, MaxStrLen)
    \/ Call_z_declare_keyexpr
    \/ Call_z_undeclare_keyexpr

Spec == Init /\ [][Next]_vars

\* ------------------------------------------------- the matching engine
\* Pure functions: the operands are drawn at the start and every call
\* records what it returned.
ChunkAlphabet == Literals \cup {SingleWild, DoubleWild}
ChunkSeqs == UNION {[1..m -> ChunkAlphabet] : m \in 1..MaxChunks}

\* Every view z_keyexpr builds from up to MaxChunks chunks: the canonical key
\* expressions, and the absent view for the strings it rejects.
AlgebraOperands == {z_keyexpr(Unsplit(cs)) : cs \in ChunkSeqs}

Unused ==
    /\ owned = [s \in Slots |-> None]
    /\ constructed = [s \in Slots |-> 0]
    /\ destructed = [s \in Slots |-> 0]
    /\ Quiet

InitAlgebra ==
    /\ Unused
    /\ left \in AlgebraOperands
    /\ right \in AlgebraOperands
    /\ suffix = <<>>

Call_z_keyexpr_equals ==
    /\ ret' = Call("equals", "", left, FALSE, z_keyexpr_equals(left, right),
                   NoRequest, "")
    /\ UNCHANGED <<owned, constructed, destructed, declared, status, operands>>

Call_z_keyexpr_intersects ==
    /\ ret' = Call("intersects", "", left, FALSE,
                   z_keyexpr_intersects(left, right), NoRequest, "")
    /\ UNCHANGED <<owned, constructed, destructed, declared, status, operands>>

Call_z_keyexpr_includes ==
    /\ ret' = Call("includes", "", left, FALSE,
                   z_keyexpr_includes(left, right), NoRequest, "")
    /\ UNCHANGED <<owned, constructed, destructed, declared, status, operands>>

NextAlgebra ==
    \/ Call_z_keyexpr_equals
    \/ Call_z_keyexpr_intersects
    \/ Call_z_keyexpr_includes

SpecAlgebra == InitAlgebra /\ [][NextAlgebra]_vars

\* ------------------------------------------------------------ the composer
ComposeAlphabet == {"a", Slash, Star, "#", BadByte}
ComposeNames == Strings(ComposeAlphabet, MaxOperandLen)
ComposeCap == 2 * MaxOperandLen + 1

InitCompose ==
    /\ Unused
    /\ left \in {z_keyexpr(n) : n \in ComposeNames}
    /\ right = None
    /\ suffix \in ComposeNames

NextCompose ==
    \/ Call_z_keyexpr_concat({left}, {suffix}, ComposeCap)
    \/ Call_z_keyexpr_join({left}, {suffix}, ComposeCap)

SpecCompose == InitCompose /\ [][NextCompose]_vars

\* =================================================================== claims
Live(s) == IF owned[s].some THEN 1 ELSE 0
Str(text) ==
    CASE text = "a/b" -> <<"a", Slash, "b">>
      [] text = "c" -> <<"c">>
      [] text = "/c" -> <<Slash, "c">>
      [] text = "a/b/c" -> <<"a", Slash, "b", Slash, "c">>
      [] text = "a/*" -> <<"a", Slash, Star>>
      [] text = "*" -> <<Star>>
      [] text = "**" -> <<Star, Star>>

\* C1 (Spec).  Double-drop safety: in every state each value moved into a
\* wrapper has had its destructor run exactly once if the wrapper is now
\* absent and never if it still owns it (so never twice, and never for a
\* wrapper that was absent all along); a z_keyexpr_drop leaves its wrapper
\* absent; a z_keyexpr_drop of an absent wrapper changes nothing; and
\* z_keyexpr_check reports exactly whether the wrapper owns a value, hence
\* false after any drop.
C1_DoubleDropSafe ==
    /\ [](\A s \in Slots :
            /\ constructed[s] = destructed[s] + Live(s)
            /\ destructed[s] <= 1)
    /\ [](ret.op = "drop" => ~owned[ret.slot].some)
    /\ [](ret.op = "check" => ret.val = owned[ret.slot].some)
    /\ [][\A s \in Slots :
            (~owned[s].some /\ ret'.op = "drop" /\ ret'.slot = s)
                => /\ owned' = owned
                   /\ destructed' = destructed
                   /\ constructed' = constructed]_vars

\* A second drop of a wrapper that owned a value: one destructor run in all.
C1_Witness ==
    \E s \in Slots :
        /\ ret.op = "drop" /\ ret.slot = s /\ ret.absent
        /\ constructed[s] = 1 /\ destructed[s] = 1 /\ ~owned[s].some

\* C2 (SpecAlgebra).  Absence propagation: when either operand is absent,
\* z_keyexpr_intersects and z_keyexpr_includes return false in both argument
\* orders, the call made returns false, and the process keeps running.
C2_AbsencePropagation ==
    (~left.some \/ ~right.some) =>
        /\ ~z_keyexpr_intersects(left, right)
        /\ ~z_keyexpr_intersects(right, left)
        /\ ~z_keyexpr_includes(left, right)
        /\ ~z_keyexpr_includes(right, left)
        /\ ret.op \in {"intersects", "includes"} => ~ret.val
        /\ status = "running"

\* z_keyexpr_intersects has returned for an absent left and a valid right.
C2_Witness ==
    ret.op = "intersects" /\ ~left.some /\ right.some /\ ~ret.val

\* C3 (SpecAlgebra).  z_keyexpr_equals returns false whenever an operand is
\* absent, and true only for two valid operands with identical strings.
C3_EqualsFalseOnAbsent ==
    ret.op = "equals" =>
        /\ (~left.some \/ ~right.some) => ~ret.val
        /\ ret.val => left.some /\ right.some /\ left.str = right.str

\* C4 (Spec).  z_undeclare_keyexpr on an absent alias makes no request on the
\* session and is reported: the call does not return normally, or it logs
\* that the key expression is uninitialized.
C4_AbsentUndeclareReported ==
    (ret.op = "undeclare" /\ ret.absent) =>
        /\ ret.sent = NoRequest
        /\ status # "running" \/ ret.log = "warn: uninitialized key expression"

\* C5 (Spec).  After z_undeclare_keyexpr returns, the wrapper it was given is
\* no longer valid.
C5_UndeclareInvalidates ==
    (ret.op = "undeclare" /\ status = "running") => ~owned[ret.slot].some

\* C6 (Spec), as claimed.  Every string submitted to the session's declare is
\* a canonical, grammar-valid key expression.
C6_OnlyValidSubmitted ==
    ret.sent.kind = "declare" => IsValidKeyExpr(ret.sent.str)

\* C6 (Spec), amended.  Every string submitted to the session's declare that
\* did not come in through z_keyexpr_unchecked is a canonical, grammar-valid
\* key expression, and so is the string of every wrapper that did not.
C6_ValidatedSubmitted ==
    /\ (ret.sent.kind = "declare" /\ ~ret.unchecked)
            => IsValidKeyExpr(ret.sent.str)
    /\ \A s \in Slots :
            (owned[s].some /\ ~owned[s].unchecked) => IsValidKeyExpr(owned[s].str)

\* A composed key expression has been submitted to the session.
C6_Witness ==
    /\ ret.sent.kind = "declare" /\ ~ret.unchecked
    /\ Len(Split(ret.sent.str)) > 1

\* C7 (Spec).  z_declare_keyexpr given an absent key expression returns the
\* absent value, makes no request on the session, leaves the session's table
\* as it was, and logs the uninitialized key expression rather than anything
\* about the session, whether or not the session is valid.
C7_DeclareAbsent ==
    /\ []((ret.op = "declare" /\ ret.absent) =>
            /\ ~owned["alias"].some
            /\ ret.sent = NoRequest
            /\ ret.log = "warn: uninitialized key expression")
    /\ [][(ret'.op = "declare" /\ ret'.absent) => declared' = declared]_vars

\* An absent key expression was declared on a valid session that already
\* holds an alias.
C7_Witness ==
    ret.op = "declare" /\ ret.absent /\ ret.session /\ declared > 0

\* C8 (SpecCompose).  z_keyexpr_concat and z_keyexpr_join return the absent
\* value when left is absent, when the suffix is not valid UTF-8, or when the
\* composed string breaks the grammar; z_keyexpr_concat also when the composed
\* string is not canonical or when left ends with `*` and the suffix starts
\* with `*`.  The result is then the null value (no string at all), and left
\* is never changed.
C8_ComposeFailsToAbsent ==
    /\ [](ret.op \in {"concat", "join"} =>
            LET composed == IF ret.op = "concat" THEN left.str \o suffix
                            ELSE left.str \o <<Slash>> \o suffix
                failing ==
                    \/ ~left.some
                    \/ ~from_utf8(suffix)
                    \/ ~GrammarValid(composed)
                    \/ /\ ret.op = "concat"
                       /\ \/ ~IsCanon(composed)
                          \/ ends_with(left.str, Star) /\ starts_with(suffix, Star)
            IN  failing => owned["k"] = None)
    /\ [][left' = left]_vars

\* concat("a/*", "*") was refused.
C8_Witness ==
    /\ ret.op = "concat" /\ owned["k"] = None
    /\ left = Some(Str("a/*")) /\ suffix = Str("*")

\* C9 (SpecCompose), as claimed.  A successful join is left + "/" + suffix
\* and a successful concat is left + suffix.
C9_PlainComposition ==
    /\ (ret.op = "join" /\ owned["k"].some)
            => owned["k"].str = left.str \o <<Slash>> \o suffix
    /\ (ret.op = "concat" /\ owned["k"].some)
            => owned["k"].str = left.str \o suffix

\* C9 (SpecCompose), amended.  A successful join is the canonical form of
\* left + "/" + suffix, which is that very string when it is canonical
\* already; a successful concat is left + suffix; both results are valid key
\* expressions; join("a/b", "c") and concat("a/b", "/c") both are "a/b/c"
\* and are equal under z_keyexpr_equals.
C9_CanonicalComposition ==
    /\ (ret.op = "join" /\ owned["k"].some) =>
            /\ owned["k"].str = Canonize(left.str \o <<Slash>> \o suffix)
            /\ IsCanon(left.str \o <<Slash>> \o suffix)
                    => owned["k"].str = left.str \o <<Slash>> \o suffix
            /\ IsValidKeyExpr(owned["k"].str)
    /\ (ret.op = "concat" /\ owned["k"].some) =>
            /\ owned["k"].str = left.str \o suffix
            /\ IsValidKeyExpr(owned["k"].str)
    /\ z_keyexpr_join(Some(Str("a/b")), Str("c")) = Some(Str("a/b/c"))
    /\ z_keyexpr_concat(Some(Str("a/b")), Str("/c")) = Some(Str("a/b/c"))
    /\ z_keyexpr_equals(z_keyexpr_join(Some(Str("a/b")), Str("c")),
                        z_keyexpr_concat(Some(Str("a/b")), Str("/c")))

\* join("**", "*") succeeded, and its result is the canonical "*/**".
C9_Witness ==
    /\ ret.op = "join" /\ owned["k"].some
    /\ left = Some(Str("**")) /\ suffix = Str("*")
    /\ owned["k"].str = <<Star, Slash, Star, Star>>

====
